---- MODULE Spec2Model ----
(***************************************************************************)
(* Model of the survey application of src/app.py: the SQLite response      *)
(* store (execute_query and the store operations built on it), the schema  *)
(* set-up with its connection self-test, and the Streamlit script run with *)
(* its three pages (survey form, results, download).                       *)
(*                                                                         *)
(* Every call of execute_query opens its own connection and commits its    *)
(* own statement, so one statement is the unit of atomicity.  A statement  *)
(* may hit a storage error (sqlite3.Error); the error is an input of the   *)
(* action, one boolean per execute_query call.                             *)
(***************************************************************************)
EXTENDS Integers, Sequences, FiniteSets, TLC

\* ---------------------------------------------------------------- bounds
\* Largest value the AUTOINCREMENT counter of survey_responses may reach.
MaxSeq == 4
\* Largest explicit limit passed to get_recent_responses (besides 20).
MaxLimit == 1
\* Largest number of storage errors the driver raises in one run of the model.
MaxFaults == 1

\* ------------------------------------------------------- program constants
None == "None"
\* save_survey's "return None" and a falsy lastrowid, as an identifier.
NoId == 0
PageLimit == 20
TestCategory == "Test Category"
TestRow ==
  [category |-> TestCategory, merchant_name |-> "Test Merchant",
   timestamp |-> "2023-01-01 00:00:00", latitude |-> "0.0", longitude |-> "0.0"]

\* ------------------------------------------------------------- the catalog
\* data.json: a list of categories, each with an ordered list of questions.
Question(text, options) == [question |-> text, options |-> options]

CatalogV1 ==
  << [category |-> "Retail",
      questions |-> << Question("A", <<"Yes", "No">>), Question("B", <<"Yes">>) >>],
     [category |-> TestCategory,
      questions |-> << Question("A", <<"Yes">>) >>] >>

\* An edited catalog: Retail asks C instead of B, and repeats question A.
CatalogV2 ==
  << [category |-> "Retail",
      questions |-> << Question("A", <<"Yes", "No">>), Question("C", <<"Yes">>),
                       Question("A", <<"No">>) >>] >>

\* load_data's fallback when data.json is missing.
EmptyCatalog == << >>

Catalogs == {CatalogV1, CatalogV2, EmptyCatalog}

\* Inputs of the widgets.
Merchants == {"", "Al-Noor Store"}
Timestamps == {"2026-11-02 10:00:00"}
Coordinates == {"30.0"}
Limits == (0..MaxLimit) \cup {PageLimit}

\* ------------------------------------------------------------------ state
VARIABLES
  db,       \* the SQLite file: tables, rows and AUTOINCREMENT counters
  data,     \* the catalog returned by load_data
  session,  \* st.session_state: latitude, longitude
  pc,       \* position in the script run: "start" (before init_database) or "body"
  last,     \* the last handler that ran: its inputs, what it returned and showed
  created,  \* the submissions save_survey returned an identifier for, with their inputs
  faults    \* the number of storage errors the driver has raised so far

vars == <<db, data, session, pc, last, created, faults>>

\* ------------------------------------------------------- Python dictionaries
\* A dict is a sequence of <<key, value>> pairs with distinct keys, in
\* insertion order.
Range(s) == {s[i] : i \in 1..Len(s)}
Keys(dict) == {dict[i][1] : i \in 1..Len(dict)}

\* dict[k] = v: replaces the value in place, or appends a new key.
DictSet(dict, k, v) ==
  IF k \in Keys(dict)
  THEN [i \in 1..Len(dict) |-> IF dict[i][1] = k THEN <<k, v>> ELSE dict[i]]
  ELSE Append(dict, <<k, v>>)

\* {row[0]: row[1] for row in rows}
RECURSIVE DictFromRows(_, _)
DictFromRows(rows, dict) ==
  IF rows = << >> THEN dict
  ELSE DictFromRows(Tail(rows), DictSet(dict, Head(rows).question, Head(rows).answer))

\* Python's dict equality ignores the order of the keys.
DictEq(a, b) == Range(a) = Range(b)

\* ------------------------------------------------------------------ SQLite
EmptyDb ==
  [tables |-> {}, survey_responses |-> {}, survey_answers |-> {},
   seq_responses |-> 0, seq_answers |-> 0]

\* Rows of a table in rowid order.
RECURSIVE SortById(_)
SortById(S) ==
  IF S = {} THEN << >>
  ELSE LET m == CHOOSE r \in S : \A o \in S : r.id <= o.id
       IN <<m>> \o SortById(S \ {m})

Reverse(s) == [i \in 1..Len(s) |-> s[Len(s) + 1 - i]]

\* LIMIT n: a negative n means no limit.
Limit(s, n) ==
  IF n < 0 \/ n >= Len(s) THEN s ELSE SubSeq(s, 1, n)

\* The statements the program issues.
CreateResponses == [sql |-> "CREATE TABLE IF NOT EXISTS survey_responses"]
CreateAnswers == [sql |-> "CREATE TABLE IF NOT EXISTS survey_answers"]
InsertResponse(category, merchant_name, timestamp, latitude, longitude) ==
  [sql |-> "INSERT INTO survey_responses", category |-> category,
   merchant_name |-> merchant_name, timestamp |-> timestamp,
   latitude |-> latitude, longitude |-> longitude]
InsertAnswer(response_id, question, answer) ==
  [sql |-> "INSERT INTO survey_answers", response_id |-> response_id,
   question |-> question, answer |-> answer]
SelectIdByCategory(category) ==
  [sql |-> "SELECT id FROM survey_responses WHERE category", category |-> category]
DeleteByCategory(category) ==
  [sql |-> "DELETE FROM survey_responses WHERE category", category |-> category]
SelectRecent(limit) ==
  [sql |-> "SELECT FROM survey_responses ORDER BY id DESC LIMIT", limit |-> limit]
SelectResponse(response_id) ==
  [sql |-> "SELECT FROM survey_responses WHERE id", response_id |-> response_id]
SelectAnswers(response_id) ==
  [sql |-> "SELECT FROM survey_answers WHERE response_id", response_id |-> response_id]
SelectAllResponses == [sql |-> "SELECT FROM survey_responses"]

\* The table a statement needs (CREATE TABLE IF NOT EXISTS needs none).
TableOf(q) ==
  CASE q.sql \in {"CREATE TABLE IF NOT EXISTS survey_responses",
                  "CREATE TABLE IF NOT EXISTS survey_answers"} -> {}
    [] q.sql \in {"INSERT INTO survey_answers",
                  "SELECT FROM survey_answers WHERE response_id"} -> {"survey_answers"}
    [] OTHER -> {"survey_responses"}

\* The NOT NULL columns of an INSERT hold a value.
NotNullOk(q) ==
  CASE q.sql = "INSERT INTO survey_responses" ->
         q.category # None /\ q.merchant_name # None /\ q.timestamp # None
    [] q.sql = "INSERT INTO survey_answers" ->
         q.question # None /\ q.answer # None
    [] OTHER -> TRUE

\* The largest id of a set of rows, 0 for no rows.
MaxRowId(rows) ==
  IF rows = {} THEN 0 ELSE CHOOSE m \in {r.id : r \in rows} : \A r \in rows : r.id <= m

\* INTEGER PRIMARY KEY without AUTOINCREMENT: one more than the largest rowid
\* the table holds now.
NextRowIdReused(seq, rows) == MaxRowId(rows) + 1

\* INTEGER PRIMARY KEY AUTOINCREMENT: one more than the largest rowid the
\* table has ever held (kept in sqlite_sequence), so no rowid is used twice.
NextRowId(seq, rows) ==
  LET m == MaxRowId(rows) IN (IF seq >= m THEN seq ELSE m) + 1

\* What one successful statement does to the file and what the cursor holds
\* (ok = TRUE: execute_query does not return None).
\* FOREIGN KEY clauses are not enforced: a new connection has foreign_keys off.
Apply(d, q) ==
  CASE q.sql = "CREATE TABLE IF NOT EXISTS survey_responses" ->
         [db |-> [d EXCEPT !.tables = @ \cup {"survey_responses"}],
          ok |-> TRUE, lastrowid |-> 0, rows |-> << >>]
    [] q.sql = "CREATE TABLE IF NOT EXISTS survey_answers" ->
         [db |-> [d EXCEPT !.tables = @ \cup {"survey_answers"}],
          ok |-> TRUE, lastrowid |-> 0, rows |-> << >>]
    [] q.sql = "INSERT INTO survey_responses" ->
         LET id == NextRowId(d.seq_responses, d.survey_responses)
         IN [db |-> [d EXCEPT !.seq_responses = id,
                              !.survey_responses = @ \cup
                                {[id |-> id, category |-> q.category,
                                  merchant_name |-> q.merchant_name,
                                  timestamp |-> q.timestamp,
                                  latitude |-> q.latitude,
                                  longitude |-> q.longitude]}],
             ok |-> TRUE, lastrowid |-> id, rows |-> << >>]
    [] q.sql = "INSERT INTO survey_answers" ->
         LET id == NextRowId(d.seq_answers, d.survey_answers)
         IN [db |-> [d EXCEPT !.seq_answers = id,
                              !.survey_answers = @ \cup
                                {[id |-> id, response_id |-> q.response_id,
                                  question |-> q.question, answer |-> q.answer]}],
             ok |-> TRUE, lastrowid |-> id, rows |-> << >>]
    [] q.sql = "SELECT id FROM survey_responses WHERE category" ->
         [db |-> d, ok |-> TRUE, lastrowid |-> 0,
          rows |-> SortById({r \in d.survey_responses : r.category = q.category})]
    [] q.sql = "DELETE FROM survey_responses WHERE category" ->
         [db |-> [d EXCEPT !.survey_responses =
                             {r \in @ : r.category # q.category}],
          ok |-> TRUE, lastrowid |-> 0, rows |-> << >>]
    [] q.sql = "SELECT FROM survey_responses ORDER BY id DESC LIMIT" ->
         [db |-> d, ok |-> TRUE, lastrowid |-> 0,
          rows |-> Limit(Reverse(SortById(d.survey_responses)), q.limit)]
    [] q.sql = "SELECT FROM survey_responses WHERE id" ->
         [db |-> d, ok |-> TRUE, lastrowid |-> 0,
          rows |-> SortById({r \in d.survey_responses : r.id = q.response_id})]
    [] q.sql = "SELECT FROM survey_answers WHERE response_id" ->
         [db |-> d, ok |-> TRUE, lastrowid |-> 0,
          rows |-> SortById({a \in d.survey_answers : a.response_id = q.response_id})]
    [] q.sql = "SELECT FROM survey_responses" ->
         [db |-> d, ok |-> TRUE, lastrowid |-> 0, rows |-> SortById(d.survey_responses)]

\* execute_query: one connection, one statement, commit; on sqlite3.Error the
\* statement is rolled back and None is returned (ok = FALSE).  err is a
\* storage error raised by the driver; a missing table and a violated
\* NOT NULL constraint raise one too.
execute_query(d, q, err) ==
  IF err \/ ~(TableOf(q) \subseteq d.tables) \/ ~NotNullOk(q)
  THEN [db |-> d, ok |-> FALSE, lastrowid |-> 0, rows |-> << >>]
  ELSE Apply(d, q)

\* ------------------------------------------------------ schema and self-test
\* Every operation below also reports errors, the number of "Database
\* error" messages execute_query showed (one per call that returned None).
Err(r) == IF r.ok THEN 0 ELSE 1

\* test_connection: insert a test row, select it back, and clean up every
\* row whose category is "Test Category".  errs[1..3] are the storage errors
\* of its three statements.
test_connection(d, errs) ==
  LET ins == execute_query(d,
               InsertResponse(TestRow.category, TestRow.merchant_name,
                              TestRow.timestamp, TestRow.latitude,
                              TestRow.longitude), errs[1])
      sel == execute_query(ins.db, SelectIdByCategory(TestCategory), errs[2])
      del == execute_query(sel.db, DeleteByCategory(TestCategory), errs[3])
  IN IF sel.ok /\ sel.rows # << >>
     THEN [db |-> del.db, result |-> TRUE,
           errors |-> Err(ins) + Err(sel) + Err(del)]
     ELSE [db |-> sel.db, result |-> FALSE, errors |-> Err(ins) + Err(sel)]

\* init_database: both CREATE TABLE IF NOT EXISTS statements (errs[1], errs[2]),
\* then test_connection (errs[3..5]).
init_database(d, errs) ==
  LET c1 == execute_query(d, CreateResponses, errs[1])
      c2 == execute_query(c1.db, CreateAnswers, errs[2])
      t == test_connection(c2.db, SubSeq(errs, 3, 5))
  IN [db |-> t.db, errors |-> Err(c1) + Err(c2) + t.errors]

\* ------------------------------------------------------- store operations
\* The loop of save_survey over answers.items(): the value execute_query
\* returns for an answer insert is dropped.
RECURSIVE InsertAnswers(_, _, _, _)
InsertAnswers(d, response_id, answers, errs) ==
  IF answers = << >> THEN [db |-> d, errors |-> 0]
  ELSE LET r == execute_query(d,
                  InsertAnswer(response_id, Head(answers)[1], Head(answers)[2]),
                  Head(errs))
           rest == InsertAnswers(r.db, response_id, Tail(answers), Tail(errs))
       IN [db |-> rest.db, errors |-> Err(r) + rest.errors]

\* save_survey: errs[1] is the storage error of the response insert,
\* errs[1 + i] that of the i-th answer insert.  response_id = NoId stands
\* for the None it returns.
save_survey(d, category, merchant_name, answers, latitude, longitude, timestamp, errs) ==
  LET r == execute_query(d,
             InsertResponse(category, merchant_name, timestamp, latitude, longitude),
             errs[1])
      a == InsertAnswers(r.db, r.lastrowid, answers, Tail(errs))
  IN IF r.ok /\ r.lastrowid # 0
     THEN [db |-> a.db, response_id |-> r.lastrowid, errors |-> a.errors]
     ELSE [db |-> r.db, response_id |-> NoId, errors |-> Err(r)]

\* get_recent_responses with the rows in ascending order of id.
get_recent_responses_ascending(d, limit, err) ==
  LET r == execute_query(d, SelectRecent(limit), err)
  IN [rows |-> IF r.ok /\ r.rows # << >>
               THEN Limit(SortById(d.survey_responses), limit) ELSE << >>,
      errors |-> Err(r)]

\* get_recent_responses: [] when the query fails or finds nothing.
get_recent_responses(d, limit, err) ==
  LET r == execute_query(d, SelectRecent(limit), err)
  IN [rows |-> IF r.ok /\ r.rows # << >> THEN r.rows ELSE << >>,
      errors |-> Err(r)]

\* The dictionary both readers build from the answer rows of a response.
AnswersDict(ans) ==
  IF ans.ok /\ ans.rows # << >> THEN DictFromRows(ans.rows, << >>) ELSE << >>

\* get_response_details that also returns None for a response without answers.
get_response_details_requires_answers(d, response_id, errs) ==
  LET info == execute_query(d, SelectResponse(response_id), errs[1])
      ans == execute_query(d, SelectAnswers(response_id), errs[2])
  IN IF ~(info.ok /\ info.rows # << >>)
     THEN [result |-> << >>, errors |-> Err(info)]
     ELSE IF ~(ans.ok /\ ans.rows # << >>)
     THEN [result |-> << >>, errors |-> Err(ans)]
     ELSE [result |-> << [id |-> response_id,
                          category |-> info.rows[1].category,
                          merchant_name |-> info.rows[1].merchant_name,
                          timestamp |-> info.rows[1].timestamp,
                          latitude |-> info.rows[1].latitude,
                          longitude |-> info.rows[1].longitude,
                          answers |-> AnswersDict(ans)] >>,
           errors |-> 0]

\* get_response_details: result = << >> stands for None, <<record>> for the
\* record.  errs[1] is the storage error of the query for the response,
\* errs[2] that of the query for its answers.
get_response_details(d, response_id, errs) ==
  LET info == execute_query(d, SelectResponse(response_id), errs[1])
      ans == execute_query(d, SelectAnswers(response_id), errs[2])
  IN IF ~(info.ok /\ info.rows # << >>)
     THEN [result |-> << >>, errors |-> Err(info)]
     ELSE [result |-> << [id |-> response_id,
                          category |-> info.rows[1].category,
                          merchant_name |-> info.rows[1].merchant_name,
                          timestamp |-> info.rows[1].timestamp,
                          latitude |-> info.rows[1].latitude,
                          longitude |-> info.rows[1].longitude,
                          answers |-> AnswersDict(ans)] >>,
           errors |-> Err(ans)]

\* get_all_survey_data that leaves out the responses without answer rows.
get_all_survey_data_joined(d, errs) ==
  LET responses == execute_query(d, SelectAllResponses, errs[1])
      HasAnswers(r) == \E a \in d.survey_answers : a.response_id = r.id
      kept == SelectSeq(responses.rows, HasAnswers)
  IN IF ~(responses.ok /\ responses.rows # << >>)
     THEN [found |-> FALSE, rows |-> << >>, errors |-> Err(responses)]
     ELSE [found |-> TRUE,
           rows |-> [i \in 1..Len(kept) |->
                      [id |-> kept[i].id,
                       category |-> kept[i].category,
                       merchant_name |-> kept[i].merchant_name,
                       timestamp |-> kept[i].timestamp,
                       latitude |-> kept[i].latitude,
                       longitude |-> kept[i].longitude,
                       answers |-> AnswersDict(
                                     execute_query(d, SelectAnswers(kept[i].id), FALSE))]],
           errors |-> 0]

\* get_all_survey_data: found = FALSE stands for None.  errs[1] is the
\* storage error of the query for the responses, errs[1 + i] that of the
\* answers query of the i-th response.
get_all_survey_data(d, errs) ==
  LET responses == execute_query(d, SelectAllResponses, errs[1])
      ans(i) == execute_query(d, SelectAnswers(responses.rows[i].id), errs[1 + i])
      n == Len(responses.rows)
      RECURSIVE Sum(_)
      Sum(i) == IF i = 0 THEN 0 ELSE Err(ans(i)) + Sum(i - 1)
  IN IF ~(responses.ok /\ responses.rows # << >>)
     THEN [found |-> FALSE, rows |-> << >>, errors |-> Err(responses)]
     ELSE [found |-> TRUE,
           rows |-> [i \in 1..n |->
                      [id |-> responses.rows[i].id,
                       category |-> responses.rows[i].category,
                       merchant_name |-> responses.rows[i].merchant_name,
                       timestamp |-> responses.rows[i].timestamp,
                       latitude |-> responses.rows[i].latitude,
                       longitude |-> responses.rows[i].longitude,
                       answers |-> AnswersDict(ans(i))]],
           errors |-> Sum(n)]

\* ---------------------------------------------------------- the survey form
\* The question loop of the form: one radio per question, the chosen option
\* stored under the question's text.
RECURSIVE form_answers(_, _, _)
form_answers(questions, picks, answers) ==
  IF questions = << >> THEN answers
  ELSE form_answers(Tail(questions), Tail(picks),
                    DictSet(answers, Head(questions).question, Head(picks)))

\* The choices a user can make in the radios of a question list.
Options == {"Yes", "No"}
Picks(questions) ==
  {p \in [1..Len(questions) -> Options] :
     \A i \in 1..Len(questions) : p[i] \in Range(questions[i].options)}

\* selected_category_data: the first category of the catalog with that name.
Categories(catalog) == {catalog[i].category : i \in 1..Len(catalog)}
CategoryData(catalog, name) ==
  catalog[CHOOSE i \in 1..Len(catalog) :
            /\ catalog[i].category = name
            /\ \A j \in 1..(i - 1) : catalog[j].category # name]

\* The submit handler without the check of the merchant name.
submit_unvalidated(d, selected_category, merchant_name, answers, sess, timestamp, errs) ==
  LET s == save_survey(d, selected_category, merchant_name, answers,
                       sess.latitude, sess.longitude, timestamp, errs)
  IN [db |-> s.db, calls |-> 1, response_id |-> s.response_id,
      errors |-> s.errors,
      message |-> IF s.response_id # NoId THEN "saved" ELSE "save failed"]

\* The submit handler of the form: calls counts the calls of save_survey.
submit(d, selected_category, merchant_name, answers, sess, timestamp, errs) ==
  IF merchant_name = ""
  THEN [db |-> d, calls |-> 0, response_id |-> NoId, errors |-> 0,
        message |-> "merchant name required"]
  ELSE LET s == save_survey(d, selected_category, merchant_name, answers,
                            sess.latitude, sess.longitude, timestamp, errs)
       IN [db |-> s.db, calls |-> 1, response_id |-> s.response_id,
           errors |-> s.errors,
           message |-> IF s.response_id # NoId THEN "saved" ELSE "save failed"]

\* ------------------------------------------------------------------ export
\* A cell of a DataFrame: an integer, a string (None is the string None), or
\* NaN for a key a row does not have.
IntCell(n) == [kind |-> "int", int |-> n, str |-> ""]
StrCell(s) == [kind |-> "str", int |-> 0, str |-> s]
NaN == [kind |-> "nan", int |-> 0, str |-> ""]

\* The six keys every row starts with (the Arabic labels of the source, in
\* English).
FixedColumns ==
  <<"ID", "category", "merchant_name", "timestamp", "latitude", "longitude">>

\* dict[k] for a key of the dict.
DictGet(dict, k) == dict[CHOOSE i \in 1..Len(dict) : dict[i][1] = k][2]

\* for question, answer in item["answers"].items(): row[question] = answer
RECURSIVE row_answers(_, _)
row_answers(row, answers) ==
  IF answers = << >> THEN row
  ELSE row_answers(DictSet(row, Head(answers)[1], StrCell(Head(answers)[2])),
                   Tail(answers))

\* The dict prepare_survey_dataframe builds for one response.
flatten_row(item) ==
  row_answers(<< <<"ID", IntCell(item.id)>>,
                 <<"category", StrCell(item.category)>>,
                 <<"merchant_name", StrCell(item.merchant_name)>>,
                 <<"timestamp", StrCell(item.timestamp)>>,
                 <<"latitude", StrCell(item.latitude)>>,
                 <<"longitude", StrCell(item.longitude)>> >>,
              item.answers)

\* The keys of a list of dicts in order of first appearance.
RECURSIVE AppendNew(_, _)
AppendNew(columns, dict) ==
  IF dict = << >> THEN columns
  ELSE AppendNew(IF Head(dict)[1] \in Range(columns) THEN columns
                 ELSE Append(columns, Head(dict)[1]),
                 Tail(dict))

RECURSIVE ColumnsOf(_, _)
ColumnsOf(rows, columns) ==
  IF rows = << >> THEN columns
  ELSE ColumnsOf(Tail(rows), AppendNew(columns, Head(rows)))

\* pd.DataFrame(rows) of a list of dicts: one row per dict, the columns are
\* the keys in order of first appearance, a missing key is NaN.
DataFrame(rows) ==
  LET columns == ColumnsOf(rows, << >>)
  IN [columns |-> columns,
      cells |-> [i \in 1..Len(rows) |->
                  [c \in Range(columns) |->
                     IF c \in Keys(rows[i]) THEN DictGet(rows[i], c) ELSE NaN]]]

prepare_survey_dataframe(items) ==
  DataFrame([i \in 1..Len(items) |-> flatten_row(items[i])])

\* ----------------------------------------------------------------- actions
\* The storage errors of a handler that calls execute_query n times: errs[i]
\* says whether the driver raises sqlite3.Error in the i-th call.
Count(errs) == Cardinality({i \in DOMAIN errs : errs[i]})
BoolSeq(n) == {errs \in [1..n -> BOOLEAN] : faults + Count(errs) <= MaxFaults}

\* The record of a handler that has shown and returned nothing yet.
Idle ==
  [op |-> "none", category |-> None, merchant_name |-> None, answers |-> << >>,
   id |-> NoId, limit |-> 0, calls |-> 0, errors |-> 0, response_id |-> NoId,
   rows |-> << >>, found |-> FALSE, message |-> "",
   frame |-> DataFrame(<< >>)]

Init ==
  /\ db = EmptyDb
  /\ data \in Catalogs
  /\ session = [latitude |-> None, longitude |-> None]
  /\ pc = "start"
  /\ last = Idle
  /\ created = {}
  /\ faults = 0

\* Every script run starts with init_database().
InitDatabase ==
  /\ pc = "start"
  /\ db.seq_responses < MaxSeq
  /\ \E errs \in BoolSeq(5) :
       LET r == init_database(db, errs)
       IN /\ db' = r.db
          /\ faults' = faults + Count(errs)
          /\ last' = [Idle EXCEPT !.op = "init_database", !.errors = r.errors]
  /\ pc' = "body"
  /\ UNCHANGED <<data, session, created>>

\* The catalog file is edited and load_data's cache is dropped between runs.
LoadData ==
  /\ pc = "start"
  /\ \E catalog \in Catalogs \ {data} : data' = catalog
  /\ last' = [Idle EXCEPT !.op = "load_data"]
  /\ UNCHANGED <<db, session, pc, created, faults>>

\* The browser's geolocation callback fills the session between runs.
Geolocation ==
  /\ pc = "start"
  /\ \E lat \in Coordinates, lng \in Coordinates :
       /\ session' = [latitude |-> lat, longitude |-> lng]
       /\ session' # session
  /\ last' = [Idle EXCEPT !.op = "geolocation"]
  /\ UNCHANGED <<db, data, pc, created, faults>>

\* The sidebar's "test connection" button.
SidebarTestConnection ==
  /\ pc = "body"
  /\ db.seq_responses < MaxSeq
  /\ \E errs \in BoolSeq(3) :
       LET r == test_connection(db, errs)
       IN /\ db' = r.db
          /\ faults' = faults + Count(errs)
          /\ last' = [Idle EXCEPT !.op = "test_connection", !.errors = r.errors,
                                  !.found = r.result,
                                  !.message = IF r.result THEN "connected"
                                              ELSE "connection failed"]
  /\ pc' = "start"
  /\ UNCHANGED <<data, session, created>>

\* The survey page with the form's submit button pressed.
Submit ==
  /\ pc = "body"
  /\ db.seq_responses < MaxSeq
  /\ \E selected_category \in Categories(data), merchant_name \in Merchants,
        timestamp \in Timestamps :
       LET questions == CategoryData(data, selected_category).questions
       IN \E picks \in Picks(questions) :
            LET answers == form_answers(questions, picks, << >>)
            IN \E errs \in BoolSeq(1 + Len(answers)) :
                 LET r == submit(db, selected_category, merchant_name, answers,
                                 session, timestamp, errs)
                 IN /\ db' = r.db
                    /\ faults' = faults + Count(errs)
                    /\ created' =
                         IF r.response_id # NoId
                         THEN created \cup
                                {[id |-> r.response_id,
                                  category |-> selected_category,
                                  merchant_name |-> merchant_name,
                                  answers |-> answers,
                                  questions |-> {questions[i].question :
                                                   i \in 1..Len(questions)}]}
                         ELSE created
                    /\ last' = [Idle EXCEPT !.op = "submit",
                                  !.category = selected_category,
                                  !.merchant_name = merchant_name,
                                  !.answers = answers,
                                  !.calls = r.calls, !.errors = r.errors,
                                  !.response_id = r.response_id,
                                  !.message = r.message]
  /\ pc' = "start"
  /\ UNCHANGED <<data, session>>

\* get_recent_responses(limit); the results page passes 20.
ListRecent ==
  /\ pc = "body"
  /\ \E limit \in Limits, errs \in BoolSeq(1) :
       LET r == get_recent_responses(db, limit, errs[1])
       IN /\ faults' = faults + Count(errs)
          /\ last' = [Idle EXCEPT !.op = "list_recent", !.limit = limit,
                               !.rows = r.rows, !.errors = r.errors]
  /\ pc' = "start"
  /\ UNCHANGED <<db, data, session, created>>

\* The results page with the "show details" button pressed: the button is
\* there only when the list of recent responses is not empty.
Detail ==
  /\ pc = "body"
  /\ \E response_id \in 1..MaxSeq, errs \in BoolSeq(3) :
       LET recent == get_recent_responses(db, PageLimit, errs[1])
           r == get_response_details(db, response_id, Tail(errs))
       IN /\ recent.rows # << >>
          /\ faults' = faults + Count(errs)
          /\ last' = [Idle EXCEPT !.op = "get", !.id = response_id,
                               !.rows = r.result, !.found = r.result # << >>,
                               !.errors = recent.errors + r.errors,
                               !.message = IF r.result # << >> THEN ""
                                           ELSE "not found"]
  /\ pc' = "start"
  /\ UNCHANGED <<db, data, session, created>>

\* The download page: get_all_survey_data(), then the table of the Excel and
\* CSV exports, or the list itself for the JSON export.
Export ==
  /\ pc = "body"
  /\ \E errs \in BoolSeq(1 + Cardinality(db.survey_responses)),
        format_option \in {"Excel", "JSON"} :
       LET r == get_all_survey_data(db, errs)
       IN /\ faults' = faults + Count(errs)
          /\ last' = [Idle EXCEPT !.op = "list_all", !.rows = r.rows,
                               !.found = r.found, !.errors = r.errors,
                               !.message = IF r.found THEN format_option
                                           ELSE "no data",
                               !.frame = IF r.found /\ format_option = "Excel"
                                         THEN prepare_survey_dataframe(r.rows)
                                         ELSE DataFrame(<< >>)]
  /\ pc' = "start"
  /\ UNCHANGED <<db, data, session, created>>

Next ==
  \/ InitDatabase
  \/ LoadData
  \/ Geolocation
  \/ SidebarTestConnection
  \/ Submit
  \/ ListRecent
  \/ Detail
  \/ Export

Spec == Init /\ [][Next]_vars

\* ---------------------------------------------- the export as a function
\* Largest number of responses handed to prepare_survey_dataframe.
MaxRows == 2
\* Largest number of questions one of these responses answered.
MaxAnswers == 2

\* Question texts of the exported responses; one is the name of a column.
FlattenQuestions == {"A", "B", "C", "ID"}

\* The answers dicts over these questions: distinct keys, any order, every
\* question answered with the same option.
AnswersDicts(answer) ==
  {d \in UNION {[1..n -> FlattenQuestions \X {answer}] : n \in 0..MaxAnswers} :
     \A i, j \in 1..Len(d) : i # j => d[i][1] # d[j][1]}

\* A response of the list get_all_survey_data returns.
FlattenItem(i, answers) ==
  [id |-> i, category |-> "Retail", merchant_name |-> "Al-Noor Store",
   timestamp |-> "2026-11-02 10:00:00", latitude |-> None, longitude |-> "30.0",
   answers |-> answers]

\* The lists get_all_survey_data can return: ids ascending, never empty where
\* the download page flattens them.
InitFlatten ==
  /\ db = EmptyDb
  /\ data = EmptyCatalog
  /\ session = [latitude |-> None, longitude |-> None]
  /\ pc = "download"
  /\ created = {}
  /\ faults = 0
  /\ \E n \in 1..MaxRows, answer \in Options :
       \E a \in [1..n -> AnswersDicts(answer)] :
         last = [op |-> "get_all_survey_data",
                 rows |-> [i \in 1..n |-> FlattenItem(i, a[i])],
                 frame |-> DataFrame(<< >>)]

\* The download page builds the table of the Excel and CSV exports.
Flatten ==
  /\ pc = "download"
  /\ last.op = "get_all_survey_data"
  /\ last' = [op |-> "prepare_survey_dataframe", rows |-> last.rows,
              frame |-> prepare_survey_dataframe(last.rows)]
  /\ UNCHANGED <<db, data, session, pc, created, faults>>

NextFlatten == Flatten

SpecFlatten == InitFlatten /\ [][NextFlatten]_vars

\* ------------------------------------------------------------------ claims
\* get_response_details when no storage error occurs: << >> or <<record>>.
Get(d, response_id) == get_response_details(d, response_id, <<FALSE, FALSE>>).result

\* The (question, answer) pairs stored for a response.
StoredAnswers(d, response_id) ==
  {<<a.question, a.answer>> : a \in {x \in d.survey_answers : x.response_id = response_id}}

\* C1: when save_survey returns an identifier, a following
\* get_response_details of that identifier returns a record whose category,
\* merchant_name and answers are the inputs given to save_survey.
C1_CreateThenGet ==
  (last.op = "submit" /\ last.response_id # NoId) =>
    LET g == Get(db, last.response_id)
    IN /\ g # << >>
       /\ g[1].category = last.category
       /\ g[1].merchant_name = last.merchant_name
       /\ DictEq(g[1].answers, last.answers)

\* C2: in every reachable state every stored response that save_survey
\* created has one answer row per entry of the answers mapping it was given.
C2_ResponseHasAllAnswers ==
  \A c \in created :
    (\E r \in db.survey_responses : r.id = c.id) =>
      /\ StoredAnswers(db, c.id) = Range(c.answers)
      /\ Cardinality({a \in db.survey_answers : a.response_id = c.id}) = Len(c.answers)

\* C3: save_survey returns no identifier whenever one of its writes (the
\* response insert or an answer insert) fails.
C3_NoIdWhenWriteFails ==
  (last.op = "submit" /\ last.calls = 1 /\ last.errors > 0) =>
    last.response_id = NoId

\* C4: once save_survey has returned an identifier, no later operation
\* changes what get_response_details returns for it.
C4_NeverMutatedNorDeleted ==
  [][\A c \in created : Get(db', c.id) = Get(db, c.id)]_vars

\* C5: a submit with an empty merchant name does not call save_survey and
\* leaves the response rows and the answer rows as they were.
C5_EmptyMerchantStoresNothing ==
  [][(last'.op = "submit" /\ last'.merchant_name = "") =>
       /\ last'.calls = 0
       /\ last'.response_id = NoId
       /\ Cardinality(db'.survey_responses) = Cardinality(db.survey_responses)
       /\ Cardinality(db'.survey_answers) = Cardinality(db.survey_answers)
       /\ db' = db]_vars

C5_Witness ==
  /\ last.op = "submit"
  /\ last.merchant_name = ""
  /\ last.answers # << >>
  /\ last.message = "merchant name required"
  /\ db.survey_responses # {}

\* C6: get_recent_responses(n) returns at most n rows, and they are a prefix
\* of the stored responses in descending order of id: stored rows, ids
\* strictly descending, and every stored row left out has a smaller id than
\* every row returned.
C6_RecentIsBoundedPrefix ==
  (last.op = "list_recent") =>
    /\ Len(last.rows) <= last.limit
    /\ \A i \in 1..Len(last.rows) : last.rows[i] \in db.survey_responses
    /\ \A i, j \in 1..Len(last.rows) : i < j => last.rows[i].id > last.rows[j].id
    /\ \A r \in db.survey_responses \ Range(last.rows) :
         \A i \in 1..Len(last.rows) : r.id < last.rows[i].id

C6_Witness ==
  /\ last.op = "list_recent"
  /\ last.limit = 1
  /\ Len(last.rows) = 1
  /\ Cardinality(db.survey_responses) >= 2

\* C7: a store operation that hits a storage error returns its failure
\* sentinel (no identifier, no rows, None) and leaves the response rows and
\* the answer rows as they were.
C7_ErrorReturnsSentinelAndKeepsStore ==
  [][(last'.op \in {"submit", "list_recent", "get", "list_all"} /\ last'.errors > 0) =>
       /\ last'.op = "submit" => last'.response_id = NoId
       /\ last'.op = "list_recent" => last'.rows = << >>
       /\ last'.op = "get" => last'.rows = << >>
       /\ last'.op = "list_all" => ~last'.found
       /\ db'.survey_responses = db.survey_responses
       /\ db'.survey_answers = db.survey_answers]_vars

\* C8: a submit with a merchant name calls save_survey exactly once, shows
\* the confirmation with the identifier exactly when the response row and
\* all its answer rows were stored, and shows the storage failure otherwise.
C8_ConfirmationIffAllPersisted ==
  (last.op = "submit" /\ last.merchant_name # "") =>
    LET persisted ==
          /\ \E r \in db.survey_responses : r.id = last.response_id
          /\ StoredAnswers(db, last.response_id) = Range(last.answers)
    IN /\ last.calls = 1
       /\ (last.message = "saved" /\ last.response_id # NoId) <=> persisted
       /\ ~persisted => last.message = "save failed"

\* C9: the questions of the answer rows of a stored response are the
\* questions its category had at submission time, and a later edit of the
\* catalog changes no stored answer row.
C9_QuestionsOfSubmissionTime ==
  [][/\ \A c \in created' :
          (\E r \in db'.survey_responses : r.id = c.id) =>
            {a.question : a \in {x \in db'.survey_answers : x.response_id = c.id}}
              = c.questions
     /\ last'.op = "load_data" => db'.survey_answers = db.survey_answers]_vars

\* C10: init_database on a store that has the schema leaves the response
\* rows and the answer rows as they were.
C10_InitDatabaseKeepsRows ==
  [][(last'.op = "init_database"
        /\ {"survey_responses", "survey_answers"} \subseteq db.tables) =>
       /\ db'.survey_responses = db.survey_responses
       /\ db'.survey_answers = db.survey_answers]_vars

\* C11: every identifier save_survey returns differs from every identifier
\* it returned before, whatever init_database and test_connection inserted
\* and deleted in between, and an identifier never passes to another row:
\* a row stored before and after a step under the same id is the same row.
C11_IdentifiersUniqueAndImmutable ==
  [][/\ (last'.op = "submit" /\ last'.response_id # NoId) =>
          /\ \A c \in created : c.id # last'.response_id
          /\ \A r \in db.survey_responses : r.id # last'.response_id
     /\ \A r \in db.survey_responses, n \in db'.survey_responses :
          r.id = n.id => r = n]_vars

\* A second submission was stored after init_database had deleted the first.
C11_Witness ==
  /\ last.op = "submit"
  /\ last.response_id # NoId
  /\ \E c \in created :
       /\ c.id < last.response_id
       /\ \A r \in db.survey_responses : r.id # c.id

\* C12: get_response_details of an identifier that matches no stored
\* response returns None and leaves the store as it was; of the identifier
\* of a stored response it returns the record of that response whenever no
\* storage error occurs.
C12_MissIsNoneHitIsRecord ==
  [][(last'.op = "get") =>
       LET stored == \E r \in db.survey_responses : r.id = last'.id
       IN /\ db' = db
          /\ ~stored => (~last'.found /\ last'.rows = << >>)
          /\ (stored /\ last'.errors = 0) =>
               /\ last'.found
               /\ Len(last'.rows) = 1
               /\ last'.rows[1].id = last'.id
               /\ \E r \in db.survey_responses :
                    /\ r.id = last'.id
                    /\ r.category = last'.rows[1].category
                    /\ r.merchant_name = last'.rows[1].merchant_name]_vars

\* The lookup of an identifier that is not stored, in a store that holds
\* other responses, without a storage error.
C12_Witness ==
  /\ last.op = "get"
  /\ last.errors = 0
  /\ ~last.found
  /\ db.survey_responses # {}
  /\ \A r \in db.survey_responses : r.id # last.id

\* The question texts of a list of responses, and the place where each is
\* met first: the response, then the position in its answers.
QuestionsOf(items) == UNION {Keys(items[i].answers) : i \in 1..Len(items)}
FirstRow(items, q) ==
  CHOOSE i \in 1..Len(items) :
    /\ q \in Keys(items[i].answers)
    /\ \A j \in 1..(i - 1) : q \notin Keys(items[j].answers)
PlaceIn(dict, q) == CHOOSE i \in 1..Len(dict) : dict[i][1] = q
Before(items, p, q) ==
  \/ FirstRow(items, p) < FirstRow(items, q)
  \/ /\ FirstRow(items, p) = FirstRow(items, q)
     /\ PlaceIn(items[FirstRow(items, p)].answers, p)
          < PlaceIn(items[FirstRow(items, q)].answers, q)

\* C13: prepare_survey_dataframe yields one row per response, the fixed
\* columns first, then one column per distinct question text of the input in
\* order of first appearance; the cell of a question a response answered is
\* its answer, the cell of a question it did not answer is empty (NaN).
C13_FlattenColumnsAreUnion ==
  (last.op = "prepare_survey_dataframe") =>
    LET items == last.rows
        columns == last.frame.columns
        cells == last.frame.cells
        n == Len(FixedColumns)
    IN /\ Len(cells) = Len(items)
       /\ Len(columns) = n + Cardinality(QuestionsOf(items))
       /\ SubSeq(columns, 1, n) = FixedColumns
       /\ {columns[k] : k \in (n + 1)..Len(columns)} = QuestionsOf(items)
       /\ \A k, l \in (n + 1)..Len(columns) :
            k < l => Before(items, columns[k], columns[l])
       /\ \A i \in 1..Len(items) : \A q \in QuestionsOf(items) :
            /\ q \in DOMAIN cells[i]
            /\ cells[i][q] = IF q \in Keys(items[i].answers)
                             THEN StrCell(DictGet(items[i].answers, q))
                             ELSE NaN

\* C17: in every row of prepare_survey_dataframe the six fixed columns hold
\* the header fields of that response, whatever its question texts are.
C17_FixedColumnsHoldHeader ==
  (last.op = "prepare_survey_dataframe") =>
    \A i \in 1..Len(last.rows) :
      LET item == last.rows[i]
          row == last.frame.cells[i]
      IN /\ row["ID"] = IntCell(item.id)
         /\ row["category"] = StrCell(item.category)
         /\ row["merchant_name"] = StrCell(item.merchant_name)
         /\ row["timestamp"] = StrCell(item.timestamp)
         /\ row["latitude"] = StrCell(item.latitude)
         /\ row["longitude"] = StrCell(item.longitude)

\* C14: when no storage error occurs get_all_survey_data returns one record
\* per stored response, none missing and none repeated, and each record is
\* the record get_response_details returns for its id; that list, with the
\* nested answers, is what the JSON export is given.
C14_ListAllIsEveryResponseOnce ==
  (last.op = "list_all" /\ last.errors = 0) =>
    /\ last.found <=> db.survey_responses # {}
    /\ Len(last.rows) = Cardinality(db.survey_responses)
    /\ {last.rows[i].id : i \in 1..Len(last.rows)}
         = {r.id : r \in db.survey_responses}
    /\ \A i \in 1..Len(last.rows) : Get(db, last.rows[i].id) = <<last.rows[i]>>
    /\ \A i \in 1..Len(last.rows) :
         Range(last.rows[i].answers) = StoredAnswers(db, last.rows[i].id)

\* An export of two stored responses, one of them with answers.
C14_Witness ==
  /\ last.op = "list_all"
  /\ last.errors = 0
  /\ last.message = "JSON"
  /\ Len(last.rows) >= 2
  /\ \E i \in 1..Len(last.rows) : last.rows[i].answers # << >>

\* C15: after a submission that saved a response the session holds no
\* location any more, so the next response does not reuse it.
C15_LocationClearedAfterSave ==
  [][(last'.op = "submit" /\ last'.response_id # NoId)
       => (session'.latitude = None /\ session'.longitude = None)]_vars

\* C16: every answer row belongs to a stored response.
C16_AnswersHaveAResponse ==
  \A a \in db.survey_answers :
    \E r \in db.survey_responses : r.id = a.response_id

====
